---- MODULE Spec2Model ----
(***************************************************************************)
(* ddosflowgen: a noise flow log is streamed twice (inbound, outbound);    *)
(* each line is parsed once, then for every node of the topology its       *)
(* addresses are rewritten, the line is printed to the node's file of the  *)
(* direction, and on a trigger line synthetic attack records are printed   *)
(* after it.                                                               *)
(*                                                                         *)
(* Representation.  A line is the sequence of its '|'-separated tokens,    *)
(* already stripped; Python's 0-based field numbers are kept, so field f   *)
(* of a list is element f+1 of the sequence.  A file is the sequence of    *)
(* the lines printed to it; a printed line is the 12 tokens                *)
(* print_rwcut_line writes (column padding is not represented), tagged     *)
(* with the generator that printed it and the input line it belongs to.    *)
(* md5it is hashlib.md5 restricted to the strings the inputs below can     *)
(* reach; strptime/strftime are datetime's restricted to the timestamps    *)
(* they can reach.  A value drawn from the random module is kept as the    *)
(* range it is drawn from.                                                 *)
(***************************************************************************)
EXTENDS Integers, Sequences, FiniteSets, TLC

(* ---------------------------------------------------------------- bounds *)
\* lines read from one noise file
MaxLines == 3
\* largest synthetic_interval a configuration is given
MaxInterval == 1
\* triggers of a pass whose bot source ports are followed on their own
MaxPortTriggers == 2
\* lines read from one noise file when the file holds records only
MaxRecordLines == 5

(* ------------------------------------------------ src/ddosflowgen.py 40-56 *)
RESERVED_CLASS_A == {0, 10, 127, 172, 255}

FIELD_SRCIP == 0
FIELD_DSTIP == 1
FIELD_SRCPORT == 2
FIELD_DSTPORT == 3
FIELD_PROTO == 4
FIELD_PACKETS == 5
FIELD_BYTES == 6
FIELD_FLAGS == 7
FIELD_STIME == 8
FIELD_DURATION == 9
FIELD_ETIME == 10
FIELD_SENSOR == 11
FIELD_TIMEDATE == 12

\* hashlib.md5(...).digest() is 16 bytes long
DigestLen == 16

(* ------------------------------------------- src/topologies/mixed_big.py *)
Node(own_network, name, has_amplifiers, has_bots, victim_ip) ==
  [own_network |-> own_network, name |-> name, has_amplifiers |-> has_amplifiers,
   has_bots |-> has_bots, victim_ip |-> victim_ip]

\* Python's None, for a victim_ip
None == "None"

nodeA == Node("172.16", "A", TRUE, TRUE, None)
nodeB == Node("172.17", "B", TRUE, FALSE, None)
nodeC == Node("172.18", "C", FALSE, TRUE, None)
nodeD == Node("172.19", "D", FALSE, TRUE, None)
nodeE == Node("172.20", "E", TRUE, FALSE, None)
nodeF == Node("172.21", "F", FALSE, FALSE, "172.21.99.99")

nodelist == <<nodeA, nodeB, nodeC, nodeD, nodeE, nodeF>>

amplifiers_per_node == 2
bots_per_node == 2

probes_enabled == 1
probes_duration == 5
probes_per_timestep == 1
probes_dst_port == 2323

reflect_service_port == 123
reflect_client_port == 80
reflect_input_packets_per_flow == 1
reflect_input_bytes_per_flow == 200
reflect_output_packets_per_flow == 300
reflect_output_bytes_per_flow == 200000

bot_dst_port == 53
bot_output_packets_per_flow == 20
bot_output_bytes_per_flow == 6000

flow_duration == 55

(* ----------------------------------------------------------- the inputs *)
\* "10.1.1.5|93.184.216.34|1234|80|6|3|180| S      |2024/01/01T00:00:00.000|0.010|2024/01/01T00:00:00.010|S0|\n"
LineData1 ==
  <<"10.1.1.5", "93.184.216.34", "1234", "80", "6", "3", "180", " S      ",
    "2024/01/01T00:00:00.000", "0.010", "2024/01/01T00:00:00.010", "S0", "">>

\* the header rwcut prints
LineHeader ==
  <<"sIP", "dIP", "sPort", "dPort", "pro", "packets", "bytes", "flags",
    "sTime", "duration", "eTime", "sen", "">>

\* one field too many: another record with "extra|" after its sensor field
LineTooMany ==
  <<"10.2.2.7", "8.8.8.8", "5353", "53", "17", "1", "60", "        ",
    "2024/01/01T00:00:01.000", "0.500", "2024/01/01T00:00:01.500", "S0", "extra", "">>

\* one field too few: the sensor is missing
LineTooFew ==
  <<"10.1.1.5", "93.184.216.34", "1234", "80", "6", "3", "180", " S      ",
    "2024/01/01T00:00:00.000", "0.010", "2024/01/01T00:00:00.010", "">>

\* a start time strptime cannot read
LineBadTime ==
  <<"10.1.1.5", "93.184.216.34", "1234", "80", "6", "3", "180", " S      ",
    "garbage", "0.010", "2024/01/01T00:00:00.010", "S0", "">>

InputLines ==
  {LineData1, LineHeader, LineTooMany, LineTooFew, LineBadTime}

(* ------------------------------------------------------ hashlib, datetime *)
\* hashlib.md5(text.encode('utf-8')).digest(), for the strings hashed
md5_table ==
  ("93.184.216.34" :> <<164, 108, 207, 2, 129, 237, 174, 145, 48, 12, 143, 144, 157, 218, 114, 62>>) @@
  ("10.1.1.5A" :> <<30, 192, 53, 249, 81, 172, 109, 151, 232, 140, 135, 212, 151, 77, 98, 59>>) @@
  ("10.1.1.5B" :> <<175, 15, 253, 58, 34, 218, 56, 44, 249, 87, 42, 161, 188, 136, 206, 62>>) @@
  ("10.1.1.5C" :> <<90, 247, 111, 248, 232, 196, 41, 196, 142, 102, 142, 152, 46, 181, 85, 235>>) @@
  ("10.1.1.5D" :> <<44, 37, 105, 155, 177, 50, 124, 237, 232, 105, 130, 220, 48, 233, 174, 194>>) @@
  ("10.1.1.5E" :> <<107, 147, 173, 7, 199, 252, 151, 213, 10, 154, 10, 114, 43, 114, 85, 52>>) @@
  ("10.1.1.5F" :> <<158, 185, 50, 169, 2, 77, 126, 169, 218, 81, 137, 51, 226, 233, 59, 112>>) @@
  ("172.16.164.108" :> <<43, 136, 1, 209, 232, 251, 165, 97, 50, 111, 96, 166, 246, 192, 213, 69>>) @@
  ("30.192.53.249B" :> <<238, 252, 111, 4, 122, 191, 233, 78, 117, 131, 246, 235, 194, 110, 169, 237>>) @@
  ("172.17.43.136" :> <<196, 64, 219, 41, 58, 67, 158, 55, 72, 137, 36, 24, 11, 140, 104, 120>>) @@
  ("238.252.111.4C" :> <<187, 233, 134, 145, 184, 108, 219, 214, 29, 68, 110, 254, 119, 148, 109, 5>>) @@
  ("172.18.196.64" :> <<111, 197, 251, 135, 217, 21, 164, 122, 48, 168, 116, 242, 96, 46, 177, 94>>) @@
  ("187.233.134.145D" :> <<33, 72, 143, 132, 247, 159, 118, 119, 81, 49, 179, 193, 192, 84, 226, 33>>) @@
  ("172.19.111.197" :> <<179, 41, 172, 208, 30, 64, 61, 254, 102, 169, 237, 146, 191, 215, 78, 160>>) @@
  ("33.72.143.132E" :> <<145, 124, 0, 21, 185, 106, 92, 253, 124, 248, 76, 104, 21, 212, 163, 109>>) @@
  ("172.20.179.41" :> <<245, 18, 196, 240, 187, 192, 142, 21, 33, 142, 207, 162, 254, 7, 48, 109>>) @@
  ("145.124.0.21F" :> <<227, 37, 186, 149, 11, 109, 76, 153, 162, 44, 18, 71, 173, 239, 14, 102>>) @@
  ("10.1.1.5" :> <<254, 169, 121, 198, 53, 55, 86, 23, 63, 42, 78, 110, 24, 62, 187, 132>>) @@
  ("93.184.216.34A" :> <<216, 62, 236, 150, 66, 146, 217, 194, 3, 191, 136, 42, 55, 141, 129, 24>>) @@
  ("93.184.216.34B" :> <<158, 126, 78, 242, 82, 96, 8, 46, 115, 6, 78, 120, 38, 60, 235, 0>>) @@
  ("93.184.216.34C" :> <<26, 66, 88, 255, 206, 77, 69, 252, 15, 75, 248, 189, 131, 6, 231, 146>>) @@
  ("93.184.216.34D" :> <<105, 195, 183, 246, 251, 130, 139, 236, 64, 181, 131, 71, 43, 98, 143, 222>>) @@
  ("93.184.216.34E" :> <<220, 147, 181, 150, 33, 125, 211, 56, 249, 234, 230, 62, 151, 70, 78, 193>>) @@
  ("93.184.216.34F" :> <<222, 171, 96, 176, 190, 251, 85, 48, 108, 147, 146, 24, 125, 53, 254, 3>>) @@
  ("172.16.254.169" :> <<168, 54, 151, 118, 171, 37, 147, 95, 40, 133, 94, 235, 163, 177, 134, 98>>) @@
  ("216.62.236.150B" :> <<237, 178, 228, 255, 99, 246, 188, 118, 61, 207, 209, 97, 44, 246, 212, 231>>) @@
  ("172.17.168.54" :> <<30, 39, 73, 86, 199, 77, 74, 242, 227, 37, 88, 153, 108, 6, 156, 49>>) @@
  ("237.178.228.255C" :> <<172, 91, 145, 236, 74, 47, 0, 217, 51, 101, 137, 111, 6, 131, 254, 150>>) @@
  ("172.18.30.39" :> <<249, 128, 122, 60, 114, 103, 73, 21, 200, 7, 68, 99, 101, 37, 238, 140>>) @@
  ("91.145.236.74D" :> <<141, 63, 128, 148, 44, 235, 127, 158, 128, 254, 181, 105, 144, 61, 159, 14>>) @@
  ("172.19.249.128" :> <<255, 127, 91, 8, 118, 176, 141, 185, 134, 141, 179, 74, 213, 128, 137, 251>>) @@
  ("141.63.128.148E" :> <<255, 87, 171, 181, 5, 244, 86, 124, 239, 237, 28, 111, 186, 215, 214, 83>>) @@
  ("172.20.255.127" :> <<230, 78, 2, 192, 89, 16, 172, 91, 1, 183, 248, 44, 14, 237, 223, 17>>) @@
  ("87.171.181.5F" :> <<123, 255, 227, 201, 96, 20, 1, 8, 54, 165, 43, 163, 22, 33, 85, 240>>) @@
  ("8.8.8.8" :> <<64, 255, 68, 217, 230, 25, 177, 117, 36, 191, 55, 99, 32, 79, 156, 187>>) @@
  ("10.2.2.7A" :> <<129, 78, 16, 177, 64, 149, 21, 141, 31, 67, 74, 254, 228, 223, 11, 134>>) @@
  ("10.2.2.7B" :> <<2, 229, 18, 159, 56, 162, 113, 79, 162, 52, 184, 22, 153, 36, 234, 100>>) @@
  ("10.2.2.7C" :> <<149, 110, 95, 112, 66, 78, 136, 193, 234, 39, 231, 137, 139, 199, 138, 192>>) @@
  ("10.2.2.7D" :> <<13, 188, 135, 158, 223, 124, 54, 10, 40, 58, 93, 236, 140, 202, 38, 233>>) @@
  ("10.2.2.7E" :> <<48, 35, 89, 115, 121, 69, 1, 4, 129, 232, 202, 172, 123, 206, 133, 17>>) @@
  ("10.2.2.7F" :> <<31, 111, 105, 122, 95, 228, 49, 171, 78, 240, 25, 220, 21, 173, 48, 82>>) @@
  ("172.16.64.255" :> <<195, 220, 135, 15, 192, 142, 9, 248, 104, 119, 29, 9, 89, 79, 49, 200>>) @@
  ("129.78.16.177B" :> <<99, 196, 214, 154, 221, 93, 139, 179, 110, 216, 38, 24, 27, 140, 157, 212>>) @@
  ("172.17.195.220" :> <<242, 199, 129, 3, 157, 84, 95, 161, 97, 226, 127, 17, 177, 74, 106, 244>>) @@
  ("99.196.214.154C" :> <<96, 135, 130, 191, 43, 93, 72, 130, 138, 184, 247, 204, 154, 67, 126, 139>>) @@
  ("172.18.242.199" :> <<112, 133, 185, 182, 1, 212, 62, 70, 112, 13, 64, 143, 204, 63, 56, 12>>) @@
  ("96.135.130.191D" :> <<75, 213, 106, 7, 243, 12, 44, 241, 93, 67, 255, 243, 171, 154, 35, 71>>) @@
  ("172.19.112.133" :> <<103, 77, 219, 35, 146, 249, 136, 5, 180, 168, 156, 164, 136, 204, 109, 251>>) @@
  ("75.213.106.7E" :> <<85, 147, 233, 246, 133, 213, 217, 151, 145, 142, 169, 209, 140, 220, 20, 103>>) @@
  ("172.20.103.77" :> <<28, 142, 201, 157, 19, 192, 193, 28, 146, 173, 21, 49, 179, 64, 54, 168>>) @@
  ("85.147.233.246F" :> <<219, 192, 183, 49, 244, 184, 6, 84, 72, 124, 101, 68, 103, 130, 194, 54>>) @@
  ("10.2.2.7" :> <<237, 178, 21, 213, 234, 167, 29, 232, 247, 238, 111, 223, 135, 62, 65, 1>>) @@
  ("8.8.8.8A" :> <<76, 152, 113, 94, 92, 140, 79, 240, 148, 31, 103, 168, 44, 176, 47, 103>>) @@
  ("8.8.8.8B" :> <<230, 164, 44, 226, 216, 157, 179, 126, 157, 70, 67, 159, 164, 177, 254, 21>>) @@
  ("8.8.8.8C" :> <<127, 87, 81, 218, 250, 181, 115, 9, 252, 233, 4, 29, 59, 189, 196, 86>>) @@
  ("8.8.8.8D" :> <<17, 40, 188, 91, 65, 222, 235, 107, 198, 47, 228, 196, 234, 187, 3, 31>>) @@
  ("8.8.8.8E" :> <<132, 63, 88, 36, 198, 234, 222, 233, 202, 83, 8, 206, 177, 229, 187, 35>>) @@
  ("8.8.8.8F" :> <<197, 116, 103, 127, 248, 253, 4, 178, 88, 210, 60, 179, 141, 125, 124, 87>>) @@
  ("172.16.237.178" :> <<0, 169, 0, 177, 77, 214, 241, 96, 184, 120, 86, 87, 91, 113, 240, 206>>) @@
  ("76.152.113.94B" :> <<222, 238, 221, 219, 159, 191, 84, 68, 160, 139, 13, 32, 143, 110, 135, 234>>) @@
  ("172.17.0.169" :> <<245, 86, 100, 138, 76, 71, 148, 10, 92, 202, 244, 2, 198, 38, 110, 44>>) @@
  ("222.238.221.219C" :> <<172, 48, 40, 236, 42, 113, 41, 236, 155, 0, 151, 229, 239, 127, 198, 183>>) @@
  ("172.18.245.86" :> <<229, 62, 53, 96, 8, 31, 45, 139, 8, 13, 5, 174, 170, 101, 159, 1>>) @@
  ("48.40.236.42D" :> <<121, 188, 40, 92, 170, 35, 63, 239, 192, 218, 13, 9, 198, 195, 30, 225>>) @@
  ("172.19.229.62" :> <<182, 48, 124, 15, 7, 91, 102, 210, 75, 207, 119, 93, 230, 146, 230, 125>>) @@
  ("121.188.40.92E" :> <<189, 134, 210, 193, 191, 37, 217, 16, 158, 14, 246, 194, 186, 229, 15, 215>>) @@
  ("172.20.182.48" :> <<238, 133, 182, 160, 8, 241, 172, 226, 214, 203, 11, 159, 21, 46, 241, 244>>) @@
  ("189.134.210.193F" :> <<188, 61, 206, 251, 61, 201, 177, 143, 113, 40, 73, 240, 121, 200, 60, 62>>) @@
  ("172.160" :> <<10, 13, 102, 67, 152, 216, 131, 190, 50, 44, 141, 20, 237, 162, 168, 153>>) @@
  ("172.160bot" :> <<224, 103, 233, 123, 70, 176, 58, 181, 76, 24, 167, 26, 75, 22, 137, 142>>) @@
  ("172.161" :> <<174, 39, 195, 21, 143, 54, 254, 198, 1, 151, 61, 41, 138, 114, 164, 110>>) @@
  ("172.161bot" :> <<97, 67, 50, 225, 84, 113, 106, 29, 218, 10, 149, 199, 91, 67, 130, 177>>) @@
  ("172.162" :> <<4, 177, 78, 130, 200, 168, 99, 214, 227, 217, 242, 216, 172, 100, 228, 186>>) @@
  ("172.162bot" :> <<56, 79, 12, 110, 58, 144, 185, 223, 46, 207, 1, 70, 191, 201, 38, 0>>) @@
  ("172.163" :> <<181, 190, 27, 136, 42, 60, 54, 142, 159, 110, 71, 94, 114, 110, 246, 179>>) @@
  ("172.163bot" :> <<27, 226, 126, 176, 47, 40, 138, 153, 87, 138, 165, 155, 3, 20, 231, 45>>) @@
  ("172.170" :> <<153, 61, 161, 234, 172, 155, 229, 32, 165, 72, 221, 84, 157, 112, 30, 201>>) @@
  ("172.170bot" :> <<202, 32, 104, 73, 121, 147, 181, 13, 249, 187, 155, 45, 66, 208, 114, 119>>) @@
  ("172.171" :> <<56, 92, 204, 122, 199, 247, 227, 153, 78, 161, 153, 246, 88, 187, 28, 151>>) @@
  ("172.171bot" :> <<86, 53, 245, 117, 51, 16, 9, 35, 22, 147, 120, 35, 59, 5, 58, 11>>) @@
  ("172.172" :> <<100, 213, 8, 135, 210, 38, 33, 80, 20, 164, 68, 170, 247, 107, 120, 81>>) @@
  ("172.172bot" :> <<141, 57, 174, 244, 166, 50, 50, 114, 73, 72, 195, 128, 40, 230, 61, 216>>) @@
  ("172.173" :> <<242, 23, 90, 239, 86, 83, 155, 135, 120, 243, 196, 121, 76, 132, 126, 0>>) @@
  ("172.173bot" :> <<12, 173, 152, 191, 28, 165, 155, 21, 90, 101, 200, 104, 147, 33, 43, 244>>) @@
  ("172.180" :> <<50, 176, 76, 174, 119, 49, 115, 114, 113, 22, 160, 45, 78, 71, 35, 248>>) @@
  ("172.180bot" :> <<48, 108, 173, 255, 1, 50, 173, 183, 96, 167, 156, 125, 173, 14, 42, 37>>) @@
  ("172.181" :> <<133, 66, 148, 169, 100, 44, 150, 195, 128, 32, 158, 236, 177, 198, 83, 59>>) @@
  ("172.181bot" :> <<114, 140, 114, 246, 27, 67, 133, 85, 34, 151, 220, 217, 68, 111, 187, 85>>) @@
  ("172.182" :> <<159, 219, 155, 209, 255, 197, 110, 228, 251, 52, 232, 43, 207, 170, 153, 37>>) @@
  ("172.182bot" :> <<22, 31, 42, 60, 43, 2, 120, 3, 208, 96, 127, 177, 32, 77, 39, 223>>) @@
  ("172.183" :> <<5, 70, 170, 60, 138, 26, 129, 175, 141, 152, 104, 210, 96, 35, 13, 171>>) @@
  ("172.183bot" :> <<72, 162, 156, 212, 120, 220, 47, 141, 201, 230, 100, 78, 49, 126, 5, 121>>) @@
  ("172.190" :> <<56, 219, 227, 159, 87, 172, 165, 98, 255, 128, 156, 140, 254, 201, 92, 66>>) @@
  ("172.190bot" :> <<243, 183, 179, 36, 4, 138, 87, 247, 162, 163, 179, 181, 225, 225, 137, 226>>) @@
  ("172.191" :> <<104, 88, 26, 23, 50, 211, 141, 224, 123, 46, 124, 109, 111, 5, 49, 252>>) @@
  ("172.191bot" :> <<171, 113, 156, 179, 155, 155, 29, 239, 243, 101, 38, 195, 151, 220, 198, 205>>) @@
  ("172.192" :> <<222, 175, 169, 91, 76, 171, 226, 98, 3, 183, 242, 81, 91, 38, 206, 145>>) @@
  ("172.192bot" :> <<123, 206, 222, 60, 115, 253, 219, 98, 128, 213, 157, 125, 6, 137, 200, 59>>) @@
  ("172.193" :> <<110, 251, 42, 165, 106, 107, 147, 193, 10, 162, 105, 176, 12, 20, 199, 140>>) @@
  ("172.193bot" :> <<156, 92, 38, 213, 165, 129, 131, 167, 238, 98, 137, 197, 78, 92, 70, 235>>) @@
  ("172.200" :> <<199, 174, 104, 217, 246, 234, 86, 54, 197, 151, 127, 65, 20, 196, 65, 198>>) @@
  ("172.200bot" :> <<165, 101, 228, 24, 103, 34, 13, 137, 34, 75, 204, 178, 115, 35, 40, 52>>) @@
  ("172.201" :> <<70, 177, 5, 116, 43, 118, 66, 130, 213, 168, 111, 156, 164, 95, 151, 149>>) @@
  ("172.201bot" :> <<172, 2, 15, 150, 159, 57, 197, 78, 30, 70, 6, 245, 193, 167, 163, 194>>) @@
  ("172.202" :> <<86, 81, 26, 221, 210, 143, 94, 25, 150, 59, 119, 82, 58, 238, 77, 39>>) @@
  ("172.202bot" :> <<161, 211, 222, 26, 25, 122, 206, 171, 43, 253, 111, 240, 206, 195, 31, 104>>) @@
  ("172.203" :> <<119, 223, 16, 40, 93, 71, 242, 39, 102, 57, 255, 125, 129, 224, 144, 165>>) @@
  ("172.203bot" :> <<72, 129, 62, 55, 132, 127, 118, 180, 92, 244, 206, 199, 160, 46, 99, 202>>) @@
  ("172.210" :> <<125, 128, 14, 219, 208, 76, 144, 110, 231, 21, 111, 87, 87, 100, 71, 178>>) @@
  ("172.210bot" :> <<40, 182, 139, 158, 28, 104, 13, 222, 215, 71, 156, 30, 97, 220, 141, 224>>) @@
  ("172.211" :> <<141, 12, 212, 166, 41, 177, 71, 46, 139, 100, 224, 21, 128, 60, 5, 57>>) @@
  ("172.211bot" :> <<63, 178, 110, 197, 162, 185, 98, 34, 248, 171, 145, 227, 8, 43, 76, 28>>) @@
  ("172.212" :> <<177, 62, 25, 3, 12, 47, 127, 193, 178, 209, 201, 75, 242, 29, 205, 26>>) @@
  ("172.212bot" :> <<161, 230, 102, 148, 169, 139, 16, 238, 221, 119, 153, 86, 77, 5, 129, 21>>) @@
  ("172.213" :> <<252, 245, 81, 177, 237, 3, 118, 123, 181, 169, 71, 121, 237, 184, 111, 115>>) @@
  ("172.213bot" :> <<157, 204, 88, 49, 41, 14, 233, 53, 208, 86, 16, 219, 189, 243, 113, 133>>)

\* datetime.strptime(s, '%Y/%m/%dT%H:%M:%S.%f'), in microseconds since 2024/01/01T00:00:00
strptime_table ==
  ("2024/01/01T00:00:00.000" :> 0) @@
  ("2024/01/01T00:00:00.005" :> 5000) @@
  ("2024/01/01T00:00:00.010" :> 10000) @@
  ("2024/01/01T00:00:00.015" :> 15000) @@
  ("2024/01/01T00:00:00.020" :> 20000) @@
  ("2024/01/01T00:00:00.025" :> 25000) @@
  ("2024/01/01T00:00:00.030" :> 30000) @@
  ("2024/01/01T00:00:00.035" :> 35000) @@
  ("2024/01/01T00:00:00.040" :> 40000) @@
  ("2024/01/01T00:00:00.045" :> 45000) @@
  ("2024/01/01T00:00:00.050" :> 50000) @@
  ("2024/01/01T00:00:00.055" :> 55000) @@
  ("2024/01/01T00:00:00.060" :> 60000) @@
  ("2024/01/01T00:00:01.000" :> 1000000) @@
  ("2024/01/01T00:00:01.005" :> 1005000) @@
  ("2024/01/01T00:00:01.010" :> 1010000) @@
  ("2024/01/01T00:00:01.015" :> 1015000) @@
  ("2024/01/01T00:00:01.020" :> 1020000) @@
  ("2024/01/01T00:00:01.025" :> 1025000) @@
  ("2024/01/01T00:00:01.030" :> 1030000) @@
  ("2024/01/01T00:00:01.035" :> 1035000) @@
  ("2024/01/01T00:00:01.040" :> 1040000) @@
  ("2024/01/01T00:00:01.045" :> 1045000) @@
  ("2024/01/01T00:00:01.050" :> 1050000) @@
  ("2024/01/01T00:00:01.055" :> 1055000) @@
  ("2024/01/01T00:00:01.060" :> 1060000) @@
  ("2024/01/01T00:00:01.500" :> 1500000) @@
  ("2024/01/01T00:00:05.000" :> 5000000) @@
  ("2024/01/01T00:00:05.005" :> 5005000) @@
  ("2024/01/01T00:00:05.010" :> 5010000) @@
  ("2024/01/01T00:00:05.015" :> 5015000) @@
  ("2024/01/01T00:00:05.020" :> 5020000) @@
  ("2024/01/01T00:00:05.025" :> 5025000) @@
  ("2024/01/01T00:00:05.030" :> 5030000) @@
  ("2024/01/01T00:00:05.035" :> 5035000) @@
  ("2024/01/01T00:00:05.040" :> 5040000) @@
  ("2024/01/01T00:00:05.045" :> 5045000) @@
  ("2024/01/01T00:00:05.050" :> 5050000) @@
  ("2024/01/01T00:00:05.055" :> 5055000) @@
  ("2024/01/01T00:00:05.060" :> 5060000) @@
  ("2024/01/01T00:00:06.000" :> 6000000) @@
  ("2024/01/01T00:00:06.005" :> 6005000) @@
  ("2024/01/01T00:00:06.010" :> 6010000) @@
  ("2024/01/01T00:00:06.015" :> 6015000) @@
  ("2024/01/01T00:00:06.020" :> 6020000) @@
  ("2024/01/01T00:00:06.025" :> 6025000) @@
  ("2024/01/01T00:00:06.030" :> 6030000) @@
  ("2024/01/01T00:00:06.035" :> 6035000) @@
  ("2024/01/01T00:00:06.040" :> 6040000) @@
  ("2024/01/01T00:00:06.045" :> 6045000) @@
  ("2024/01/01T00:00:06.050" :> 6050000) @@
  ("2024/01/01T00:00:06.055" :> 6055000) @@
  ("2024/01/01T00:00:06.060" :> 6060000) @@
  ("2024/01/01T00:00:55.000" :> 55000000) @@
  ("2024/01/01T00:00:55.005" :> 55005000) @@
  ("2024/01/01T00:00:55.010" :> 55010000) @@
  ("2024/01/01T00:00:55.015" :> 55015000) @@
  ("2024/01/01T00:00:55.020" :> 55020000) @@
  ("2024/01/01T00:00:55.025" :> 55025000) @@
  ("2024/01/01T00:00:55.030" :> 55030000) @@
  ("2024/01/01T00:00:55.035" :> 55035000) @@
  ("2024/01/01T00:00:55.040" :> 55040000) @@
  ("2024/01/01T00:00:55.045" :> 55045000) @@
  ("2024/01/01T00:00:55.050" :> 55050000) @@
  ("2024/01/01T00:00:55.055" :> 55055000) @@
  ("2024/01/01T00:00:55.060" :> 55060000) @@
  ("2024/01/01T00:00:56.000" :> 56000000) @@
  ("2024/01/01T00:00:56.005" :> 56005000) @@
  ("2024/01/01T00:00:56.010" :> 56010000) @@
  ("2024/01/01T00:00:56.015" :> 56015000) @@
  ("2024/01/01T00:00:56.020" :> 56020000) @@
  ("2024/01/01T00:00:56.025" :> 56025000) @@
  ("2024/01/01T00:00:56.030" :> 56030000) @@
  ("2024/01/01T00:00:56.035" :> 56035000) @@
  ("2024/01/01T00:00:56.040" :> 56040000) @@
  ("2024/01/01T00:00:56.045" :> 56045000) @@
  ("2024/01/01T00:00:56.050" :> 56050000) @@
  ("2024/01/01T00:00:56.055" :> 56055000) @@
  ("2024/01/01T00:00:56.060" :> 56060000)

\* t.strftime('%Y/%m/%dT%H:%M:%S.%f')[:-3], by the whole milliseconds of t
strftime_table ==
  (0 :> "2024/01/01T00:00:00.000") @@
  (5 :> "2024/01/01T00:00:00.005") @@
  (10 :> "2024/01/01T00:00:00.010") @@
  (15 :> "2024/01/01T00:00:00.015") @@
  (20 :> "2024/01/01T00:00:00.020") @@
  (25 :> "2024/01/01T00:00:00.025") @@
  (30 :> "2024/01/01T00:00:00.030") @@
  (35 :> "2024/01/01T00:00:00.035") @@
  (40 :> "2024/01/01T00:00:00.040") @@
  (45 :> "2024/01/01T00:00:00.045") @@
  (50 :> "2024/01/01T00:00:00.050") @@
  (55 :> "2024/01/01T00:00:00.055") @@
  (60 :> "2024/01/01T00:00:00.060") @@
  (1000 :> "2024/01/01T00:00:01.000") @@
  (1005 :> "2024/01/01T00:00:01.005") @@
  (1010 :> "2024/01/01T00:00:01.010") @@
  (1015 :> "2024/01/01T00:00:01.015") @@
  (1020 :> "2024/01/01T00:00:01.020") @@
  (1025 :> "2024/01/01T00:00:01.025") @@
  (1030 :> "2024/01/01T00:00:01.030") @@
  (1035 :> "2024/01/01T00:00:01.035") @@
  (1040 :> "2024/01/01T00:00:01.040") @@
  (1045 :> "2024/01/01T00:00:01.045") @@
  (1050 :> "2024/01/01T00:00:01.050") @@
  (1055 :> "2024/01/01T00:00:01.055") @@
  (1060 :> "2024/01/01T00:00:01.060") @@
  (1500 :> "2024/01/01T00:00:01.500") @@
  (5000 :> "2024/01/01T00:00:05.000") @@
  (5005 :> "2024/01/01T00:00:05.005") @@
  (5010 :> "2024/01/01T00:00:05.010") @@
  (5015 :> "2024/01/01T00:00:05.015") @@
  (5020 :> "2024/01/01T00:00:05.020") @@
  (5025 :> "2024/01/01T00:00:05.025") @@
  (5030 :> "2024/01/01T00:00:05.030") @@
  (5035 :> "2024/01/01T00:00:05.035") @@
  (5040 :> "2024/01/01T00:00:05.040") @@
  (5045 :> "2024/01/01T00:00:05.045") @@
  (5050 :> "2024/01/01T00:00:05.050") @@
  (5055 :> "2024/01/01T00:00:05.055") @@
  (5060 :> "2024/01/01T00:00:05.060") @@
  (6000 :> "2024/01/01T00:00:06.000") @@
  (6005 :> "2024/01/01T00:00:06.005") @@
  (6010 :> "2024/01/01T00:00:06.010") @@
  (6015 :> "2024/01/01T00:00:06.015") @@
  (6020 :> "2024/01/01T00:00:06.020") @@
  (6025 :> "2024/01/01T00:00:06.025") @@
  (6030 :> "2024/01/01T00:00:06.030") @@
  (6035 :> "2024/01/01T00:00:06.035") @@
  (6040 :> "2024/01/01T00:00:06.040") @@
  (6045 :> "2024/01/01T00:00:06.045") @@
  (6050 :> "2024/01/01T00:00:06.050") @@
  (6055 :> "2024/01/01T00:00:06.055") @@
  (6060 :> "2024/01/01T00:00:06.060") @@
  (55000 :> "2024/01/01T00:00:55.000") @@
  (55005 :> "2024/01/01T00:00:55.005") @@
  (55010 :> "2024/01/01T00:00:55.010") @@
  (55015 :> "2024/01/01T00:00:55.015") @@
  (55020 :> "2024/01/01T00:00:55.020") @@
  (55025 :> "2024/01/01T00:00:55.025") @@
  (55030 :> "2024/01/01T00:00:55.030") @@
  (55035 :> "2024/01/01T00:00:55.035") @@
  (55040 :> "2024/01/01T00:00:55.040") @@
  (55045 :> "2024/01/01T00:00:55.045") @@
  (55050 :> "2024/01/01T00:00:55.050") @@
  (55055 :> "2024/01/01T00:00:55.055") @@
  (55060 :> "2024/01/01T00:00:55.060") @@
  (56000 :> "2024/01/01T00:00:56.000") @@
  (56005 :> "2024/01/01T00:00:56.005") @@
  (56010 :> "2024/01/01T00:00:56.010") @@
  (56015 :> "2024/01/01T00:00:56.015") @@
  (56020 :> "2024/01/01T00:00:56.020") @@
  (56025 :> "2024/01/01T00:00:56.025") @@
  (56030 :> "2024/01/01T00:00:56.030") @@
  (56035 :> "2024/01/01T00:00:56.035") @@
  (56040 :> "2024/01/01T00:00:56.040") @@
  (56045 :> "2024/01/01T00:00:56.045") @@
  (56050 :> "2024/01/01T00:00:56.050") @@
  (56055 :> "2024/01/01T00:00:56.055") @@
  (56060 :> "2024/01/01T00:00:56.060")

md5it(text) == md5_table[text]

\* the value standing in parsed[FIELD_TIMEDATE] while it holds the str left by
\* the split rather than a datetime
NotADatetime == -1

Parsable(s) == s \in DOMAIN strptime_table

strptime(s) == strptime_table[s]

\* t.strftime('%Y/%m/%dT%H:%M:%S.%f')[:-3]: the last three digits are cut
strftime(t) == strftime_table[t \div 1000]

\* datetime.timedelta(0, 0, 0, ms) and datetime.timedelta(0, s), in microseconds
timedelta_ms(ms) == ms * 1000

timedelta_s(s) == s * 1000000

\* '{0:.3f}'.format(n) of an int
format3f(n) == ToString(n) \o ".000"

\* str(lo + random.randint(0, lo)): any of lo..2*lo
randint_floor(lo) == ToString(lo) \o ".." \o ToString(2 * lo)

(* -------------------------------------------------------------- the state *)
VARIABLES
  synthetic_interval,  \* topology.synthetic_interval
  pc,                  \* where run() is: "init", "inbound", "outbound", "closed"
  noise,               \* the lines read so far from each noise file
  counter,             \* foreach_noise's counter
  add_attack,          \* foreach_noise's add_attack
  parsed,              \* the list parse_line returned, shared by the node loop
  nodei,               \* the node loop: index of the next node, Len+1 when over
  bot_portcount,       \* self.bot_portcount
  files,               \* node.result_inbound / node.result_outbound, by node name
  error,               \* the exception that ended the run, "" while none
  digest_in,           \* a digest handed to the address generator on its own
  external_out,        \* what the address generator made of digest_in
  bot_digests,         \* digests handed to get_bot_src_port on their own, by bot
  bot_ports            \* the ports get_bot_src_port returned for bot_digests

vars ==
  <<synthetic_interval, pc, noise, counter, add_attack, parsed, nodei,
    bot_portcount, files, error, digest_in, external_out, bot_digests,
    bot_ports>>

Directions == {"inbound", "outbound"}

NodeNames == {nodelist[i].name : i \in 1..Len(nodelist)}

NodeIndex(name) == CHOOSE i \in 1..Len(nodelist) : nodelist[i].name = name

\* FlowGen.__init__: the last node that declares a victim_ip
victim_node ==
  nodelist[CHOOSE i \in 1..Len(nodelist) :
             /\ nodelist[i].victim_ip /= None
             /\ \A j \in (i+1)..Len(nodelist) : nodelist[j].victim_ip = None]

HasAmplifiers(n) == n.has_amplifiers

HasBots(n) == n.has_bots

\* the nodes gen_victim's two loops pick, in nodelist order
AmpNodes == SelectSeq(nodelist, HasAmplifiers)

BotNodes == SelectSeq(nodelist, HasBots)

(* ----------------------------------------------------------- parse_line *)
\* the exception parse_line raises on the tokens of a line, "" when none
parse_error(line) ==
  IF Len(line) <= FIELD_STIME THEN "IndexError"
  ELSE IF line[FIELD_STIME + 1] = "sTime" THEN ""
  ELSE IF ~Parsable(line[FIELD_STIME + 1]) THEN "ValueError"
  ELSE IF Len(line) <= FIELD_TIMEDATE THEN "IndexError"
  ELSE ""

\* the list parse_line returns: .tok the str tokens, .timedate the datetime
\* stored at FIELD_TIMEDATE (not stored for a header line)
parse_line(line) ==
  [tok |-> line,
   timedate |-> IF line[FIELD_STIME + 1] /= "sTime"
                THEN strptime(line[FIELD_STIME + 1])
                ELSE NotADatetime]

(* ------------------------------------------------------ print_rwcut_line *)
\* the twelve fields print_rwcut_line writes
print_rwcut_line(fields) == SubSeq(fields, 1, FIELD_SENSOR + 1)

\* one printed line: where it went, what it holds, and who printed it
Printed(fields, name, dir, gen, kind, line, node, id) ==
  [file |-> <<name, dir>>, fields |-> print_rwcut_line(fields),
   gen |-> gen, kind |-> kind, line |-> line, node |-> node, id |-> id]

Direction(is_inbound) == IF is_inbound THEN "inbound" ELSE "outbound"

(* --------------------------------------------------------------- rewrite *)
internalfield(is_inbound) == IF is_inbound THEN FIELD_DSTIP ELSE FIELD_SRCIP

externalfield(is_inbound) == IF is_inbound THEN FIELD_SRCIP ELSE FIELD_DSTIP

\* "{0}.{1}.{2}".format(network, digest[0], digest[1])
internal_ip(network, digest) ==
  network \o "." \o ToString(digest[1]) \o "." \o ToString(digest[2])

\* a slip in lines 140-141: "if" for "while", one reserved byte skipped at most
skip_reserved_once(digest, pos) ==
  IF digest[pos + 1] \in RESERVED_CLASS_A THEN pos + 1 ELSE pos

\* pos after "while digest[pos] in RESERVED_CLASS_A: pos += 1"; DigestLen when
\* the loop runs off the digest
RECURSIVE skip_reserved(_, _)
skip_reserved(digest, pos) ==
  IF pos >= DigestLen THEN DigestLen
  ELSE IF digest[pos + 1] \in RESERVED_CLASS_A THEN skip_reserved(digest, pos + 1)
  ELSE pos

\* digest[pos] or digest[pos+3] past the end of the digest: IndexError
external_overflow(digest) == skip_reserved(digest, 0) + 3 >= DigestLen

\* the four bytes the external address is made of
external_octets(digest) ==
  LET pos == skip_reserved(digest, 0)
  IN  <<digest[pos + 1], digest[pos + 2], digest[pos + 3], digest[pos + 4]>>

\* "{0}.{1}.{2}.{3}".format(...)
external_ip(digest) ==
  LET o == external_octets(digest)
  IN  ToString(o[1]) \o "." \o ToString(o[2]) \o "." \o ToString(o[3])
        \o "." \o ToString(o[4])

(* -------------------------------------------------------- gen_amplifiers *)
amp_ip(node, ampid) ==
  internal_ip(node.own_network, md5it(node.own_network \o ToString(ampid)))

\* offset = timedelta(0, 0, 0, 10*(1+id))
flow_offset(id) == timedelta_ms(10 * (1 + id))

\* a slip in lines 169-172: flowend = start_time + duration, the offset left out
udp_flow_end_without_offset(synth, start_time, id) ==
  [synth EXCEPT
     ![FIELD_STIME + 1] = strftime(start_time + timedelta_ms(10 * (1 + id))),
     ![FIELD_DURATION + 1] = format3f(flow_duration),
     ![FIELD_ETIME + 1] = strftime(start_time + timedelta_s(flow_duration)),
     ![FIELD_PROTO + 1] = "17",
     ![FIELD_FLAGS + 1] = "        "]

\* the fields every amplifier and bot record sets the same way
udp_flow(synth, start_time, id) ==
  [synth EXCEPT
     ![FIELD_STIME + 1] = strftime(start_time + flow_offset(id)),
     ![FIELD_DURATION + 1] = format3f(flow_duration),
     ![FIELD_ETIME + 1] =
        strftime(start_time + flow_offset(id) + timedelta_s(flow_duration)),
     ![FIELD_PROTO + 1] = "17",
     ![FIELD_FLAGS + 1] = "        "]

\* the request sent to an amplifier with its two ports exchanged
into_amplifier_ports_swapped(synth, node, ampid) ==
  [synth EXCEPT
     ![FIELD_SRCIP + 1] = victim_node.victim_ip,
     ![FIELD_DSTIP + 1] = amp_ip(node, ampid),
     ![FIELD_SRCPORT + 1] = ToString(reflect_service_port),
     ![FIELD_DSTPORT + 1] = ToString(reflect_client_port),
     ![FIELD_PACKETS + 1] = randint_floor(reflect_input_packets_per_flow),
     ![FIELD_BYTES + 1] = randint_floor(reflect_input_bytes_per_flow)]

\* the branch "Into amplifier"
into_amplifier(synth, node, ampid) ==
  [synth EXCEPT
     ![FIELD_SRCIP + 1] = victim_node.victim_ip,
     ![FIELD_DSTIP + 1] = amp_ip(node, ampid),
     ![FIELD_SRCPORT + 1] = ToString(reflect_client_port),
     ![FIELD_DSTPORT + 1] = ToString(reflect_service_port),
     ![FIELD_PACKETS + 1] = randint_floor(reflect_input_packets_per_flow),
     ![FIELD_BYTES + 1] = randint_floor(reflect_input_bytes_per_flow)]

\* the branch "Out of amplifier", and gen_victim's amplifier records
out_of_amplifier(synth, node, ampid) ==
  [synth EXCEPT
     ![FIELD_DSTIP + 1] = victim_node.victim_ip,
     ![FIELD_SRCIP + 1] = amp_ip(node, ampid),
     ![FIELD_DSTPORT + 1] = ToString(reflect_client_port),
     ![FIELD_SRCPORT + 1] = ToString(reflect_service_port),
     ![FIELD_PACKETS + 1] = randint_floor(reflect_output_packets_per_flow),
     ![FIELD_BYTES + 1] = randint_floor(reflect_output_bytes_per_flow)]

\* the lines gen_amplifiers prints to outfile, one per ampid
gen_amplifiers(tok, start_time, is_inbound, node, line) ==
  [k \in 1..amplifiers_per_node |->
     Printed(IF is_inbound
             THEN into_amplifier(udp_flow(tok, start_time, k - 1), node, k - 1)
             ELSE out_of_amplifier(udp_flow(tok, start_time, k - 1), node, k - 1),
             node.name, Direction(is_inbound),
             "gen_amplifiers", "amp", line, node.name, k - 1)]

(* -------------------------------------------------------------- gen_bots *)
bot_digest(node, botid) == md5it(node.own_network \o ToString(botid) \o "bot")

\* a slip in lines 298-299: the sum stops at digest[9]
get_bot_src_port_short_sum(digest, portcount) ==
  LET current == portcount + digest[3] + digest[4] + digest[5] + digest[6]
                   + digest[7] + digest[8] + digest[9] + digest[10]
  IN  ToString(10000 + (current % 55536))

\* a slip in line 297: the counter is left out of the sum
get_bot_src_port_without_counter(digest, portcount) ==
  LET current == digest[3] + digest[4] + digest[5] + digest[6]
                   + digest[7] + digest[8] + digest[9] + digest[10] + digest[11]
  IN  ToString(10000 + (current % 55536))

\* get_bot_src_port's value for a digest, with self.bot_portcount = portcount
get_bot_src_port(digest, portcount) ==
  LET current == portcount + digest[3] + digest[4] + digest[5] + digest[6]
                   + digest[7] + digest[8] + digest[9] + digest[10] + digest[11]
  IN  ToString(10000 + (current % 55536))

\* a bot flood record, the portcount-th call of get_bot_src_port of the pass
bot_flow(synth, node, botid, portcount) ==
  [synth EXCEPT
     ![FIELD_SRCIP + 1] = internal_ip(node.own_network, bot_digest(node, botid)),
     ![FIELD_DSTIP + 1] = victim_node.victim_ip,
     ![FIELD_SRCPORT + 1] = get_bot_src_port(bot_digest(node, botid), portcount),
     ![FIELD_DSTPORT + 1] = ToString(bot_dst_port),
     ![FIELD_PACKETS + 1] = randint_floor(bot_output_packets_per_flow),
     ![FIELD_BYTES + 1] = randint_floor(bot_output_bytes_per_flow)]

\* the lines gen_bots prints to outfile: none when inbound, else one per botid,
\* each call of get_bot_src_port adding one to bot_portcount
gen_bots(tok, start_time, is_inbound, node, line, portcount) ==
  IF is_inbound THEN <<>>
  ELSE [k \in 1..bots_per_node |->
          Printed(bot_flow(udp_flow(tok, start_time, k - 1), node, k - 1,
                           portcount + (k - 1)),
                  node.name, "outbound", "gen_bots", "bot", line, node.name, k - 1)]

(* ------------------------------------------------------------ gen_victim *)
\* the first loop: every amplifier of every node that has amplifiers
gen_victim_amps(tok, start_time, line) ==
  [k \in 1..(Len(AmpNodes) * amplifiers_per_node) |->
     LET ampnode == AmpNodes[((k - 1) \div amplifiers_per_node) + 1]
         ampid == (k - 1) % amplifiers_per_node
     IN  Printed(out_of_amplifier(udp_flow(tok, start_time, ampid), ampnode, ampid),
                 victim_node.name, "inbound",
                 "gen_victim", "amp", line, ampnode.name, ampid)]

\* the second loop: every bot of every node that has bots
gen_victim_bots(tok, start_time, line, portcount) ==
  [k \in 1..(Len(BotNodes) * bots_per_node) |->
     LET botnode == BotNodes[((k - 1) \div bots_per_node) + 1]
         botid == (k - 1) % bots_per_node
     IN  Printed(bot_flow(udp_flow(tok, start_time, botid), botnode, botid,
                          portcount + (k - 1)),
                 victim_node.name, "inbound",
                 "gen_victim", "bot", line, botnode.name, botid)]

\* a slip in line 239: the direction is not tested
gen_victim_any_direction(tok, start_time, is_inbound, line, portcount) ==
  gen_victim_amps(tok, start_time, line)
    \o gen_victim_bots(tok, start_time, line, portcount)

\* the lines gen_victim prints to the victim's inbound file
gen_victim(tok, start_time, is_inbound, line, portcount) ==
  IF is_inbound
  THEN gen_victim_amps(tok, start_time, line)
         \o gen_victim_bots(tok, start_time, line, portcount)
  ELSE <<>>

(* ------------------------------------------------------------ gen_probes *)
\* gen_rand_ip(prefix): the random octets are kept as "*"
gen_rand_ip(prefix) ==
  IF prefix = None THEN "*.*.*.*" ELSE prefix \o ".*.*"

probe_flow(synth, start_time, node, probe) ==
  [synth EXCEPT
     ![FIELD_STIME + 1] = strftime(start_time + timedelta_ms(15 * (1 + probe))),
     ![FIELD_DURATION + 1] = format3f(probes_duration),
     ![FIELD_ETIME + 1] =
        strftime(start_time + timedelta_ms(15 * (1 + probe))
                   + timedelta_s(probes_duration)),
     ![FIELD_PROTO + 1] = "6",
     ![FIELD_FLAGS + 1] = " S      ",
     ![FIELD_SRCIP + 1] = gen_rand_ip(None),
     ![FIELD_DSTIP + 1] = gen_rand_ip(node.own_network),
     ![FIELD_SRCPORT + 1] = "49152..65535",
     ![FIELD_DSTPORT + 1] = ToString(probes_dst_port),
     ![FIELD_PACKETS + 1] = ToString(1 + probes_duration),
     ![FIELD_BYTES + 1] = ToString(64 * (1 + probes_duration))]

\* the lines gen_probes prints to outfile: only when inbound
gen_probes(tok, start_time, is_inbound, node, line) ==
  IF is_inbound
  THEN [k \in 1..probes_per_timestep |->
          Printed(probe_flow(tok, start_time, node, k - 1),
                  node.name, "inbound", "gen_probes", "probe", line, node.name, k - 1)]
  ELSE <<>>

(* ------------------------------------------------- rewrite, lines 122-153 *)
\* lines 134-142: the tokens after the two addresses are transformed in place.
\* The internal address is assigned before the external digest is walked.
anonymize_internal(tok, is_inbound, node) ==
  [tok EXCEPT ![internalfield(is_inbound) + 1] =
     internal_ip(node.own_network, md5it(tok[internalfield(is_inbound) + 1]))]

external_digest(tok, is_inbound, node) ==
  md5it(tok[externalfield(is_inbound) + 1] \o node.name)

anonymize_external(tok, is_inbound, node) ==
  [tok EXCEPT ![externalfield(is_inbound) + 1] =
     external_ip(external_digest(tok, is_inbound, node))]

\* line 131: not a header line
is_record(tok) == tok[FIELD_SRCIP + 1] /= "sIP"

\* whether some generator rewrite calls for this node computes
\* start_time + offset, which raises TypeError when start_time is a str
adds_offset(is_inbound, node) ==
  \/ node.has_amplifiers /\ amplifiers_per_node > 0
  \/ node.has_bots /\ ~is_inbound /\ bots_per_node > 0
  \/ /\ node = victim_node
     /\ is_inbound
     /\ Len(AmpNodes) * amplifiers_per_node + Len(BotNodes) * bots_per_node > 0
  \/ probes_enabled = 1 /\ is_inbound /\ probes_per_timestep > 0

\* how many times the generators rewrite calls for this node call
\* get_bot_src_port
bot_port_calls(is_inbound, node) ==
  (IF node.has_bots /\ ~is_inbound THEN bots_per_node ELSE 0)
  + (IF node = victim_node /\ is_inbound
     THEN Len(BotNodes) * bots_per_node ELSE 0)

\* lines 144-153: the synthetic lines, in the order they are printed
attack(tok, sTime, is_inbound, node, line, portcount) ==
  (IF node.has_amplifiers
   THEN gen_amplifiers(tok, sTime, is_inbound, node, line) ELSE <<>>)
  \o (IF node.has_bots
      THEN gen_bots(tok, sTime, is_inbound, node, line, portcount) ELSE <<>>)
  \o (IF node = victim_node
      THEN gen_victim(tok, sTime, is_inbound, line, portcount) ELSE <<>>)
  \o (IF probes_enabled = 1
      THEN gen_probes(tok, sTime, is_inbound, node, line) ELSE <<>>)

\* line 143: the line itself, printed to the node's file of the direction
real_line(tok, is_inbound, node, line) ==
  Printed(tok, node.name, Direction(is_inbound), "rewrite",
          IF is_record(tok) THEN "real" ELSE "header", line, node.name, 0)

\* a slip in lines 143-153: the line is printed after the attack is generated
rewrite_prints_line_last(real, synth) == synth \o <<real>>

\* everything one call of rewrite prints, in order
rewrite_prints(real, synth) == <<real>> \o synth

\* one call of rewrite on the shared list: the list as it leaves it, the lines
\* printed in order, bot_portcount after it, and the exception raised
rewrite(list, is_inbound, node, attacking, line, portcount) ==
  LET tok1 == IF is_record(list.tok)
              THEN anonymize_internal(list.tok, is_inbound, node) ELSE list.tok
      overflow == /\ is_record(list.tok)
                  /\ external_overflow(external_digest(tok1, is_inbound, node))
      tok2 == IF is_record(list.tok)
              THEN anonymize_external(tok1, is_inbound, node) ELSE tok1
      raises == /\ attacking
                /\ list.timedate = NotADatetime
                /\ adds_offset(is_inbound, node)
  IN  IF overflow
      THEN [list |-> [list EXCEPT !.tok = tok1], prints |-> <<>>,
            bot_portcount |-> portcount, error |-> "IndexError"]
      ELSE IF raises
      THEN [list |-> [list EXCEPT !.tok = tok2],
            prints |-> <<real_line(tok2, is_inbound, node, line)>>,
            bot_portcount |-> portcount, error |-> "TypeError"]
      ELSE [list |-> [list EXCEPT !.tok = tok2],
            prints |->
              rewrite_prints(
                real_line(tok2, is_inbound, node, line),
                IF attacking
                THEN attack(tok2, list.timedate, is_inbound, node, line, portcount)
                ELSE <<>>),
            bot_portcount |->
              portcount + (IF attacking THEN bot_port_calls(is_inbound, node) ELSE 0),
            error |-> ""]

(* ------------------------------------------------------------ the actions *)
NoList == [tok |-> <<>>, timedate |-> NotADatetime]

\* digest_in not yet handed to the address generator
NoExternal == [done |-> FALSE, error |-> "", octets |-> <<>>, ip |-> ""]

EmptyFiles == [n \in NodeNames |-> [d \in Directions |-> <<>>]]

Init ==
  /\ synthetic_interval \in 0..MaxInterval
  /\ pc = "init"
  /\ noise = [d \in Directions |-> <<>>]
  /\ counter = 0
  /\ add_attack = FALSE
  /\ parsed = NoList
  /\ nodei = Len(nodelist) + 1
  /\ bot_portcount = 0
  /\ files = EmptyFiles
  /\ error = ""
  /\ digest_in = <<>>
  /\ external_out = NoExternal
  /\ bot_digests = <<>>
  /\ bot_ports = <<>>

Running == pc \in Directions /\ error = ""

\* the node loop of the last line read is over
BetweenLines == nodei = Len(nodelist) + 1

\* lines 91-96: the trigger decision for the line being read
trigger(c) == c > synthetic_interval

\* a slip in line 93: the counter restarts at 0 after a trigger
next_counter_from_zero(c) == IF trigger(c) THEN 0 ELSE c + 1

\* lines 91-96: the counter after the decision
next_counter(c) == IF trigger(c) THEN 1 ELSE c + 1

\* a slip in line 84: the counter is not reset for the outbound pass
outbound_portcount_kept(old) == old

\* bot_portcount at the start of the outbound pass (line 84)
outbound_portcount(old) == 0

\* run, lines 78-81, and foreach_noise line 89
RunInbound ==
  /\ pc = "init"
  /\ pc' = "inbound"
  /\ bot_portcount' = 0
  /\ counter' = 0
  /\ UNCHANGED <<synthetic_interval, noise, add_attack, parsed, nodei, files,
                 error, digest_in, external_out,
                 bot_digests, bot_ports>>

\* foreach_noise, lines 90-97: the next line of a file of at most max lines is
\* read, the trigger is decided and the line is parsed
ReadLineOf(line, max) ==
  /\ Running
  /\ BetweenLines
  /\ Len(noise[pc]) < max
  /\ noise' = [noise EXCEPT ![pc] = Append(@, line)]
  /\ add_attack' = trigger(counter)
  /\ counter' = next_counter(counter)
  /\ error' = parse_error(line)
  /\ IF parse_error(line) = ""
     THEN parsed' = parse_line(line) /\ nodei' = 1
     ELSE UNCHANGED <<parsed, nodei>>
  /\ UNCHANGED <<synthetic_interval, pc, bot_portcount, files, digest_in,
                 external_out,
                 bot_digests, bot_ports>>

ReadLine(line) == ReadLineOf(line, MaxLines)

\* print_rwcut_line's outfile.write, line 357, for the lines one call of
\* rewrite prints: each is appended to its own file, in the order printed
RECURSIVE write_all(_, _)
write_all(fs, prints) ==
  IF prints = <<>> THEN fs
  ELSE LET p == Head(prints)
       IN  write_all([fs EXCEPT ![p.file[1]][p.file[2]] = Append(@, p)],
                     Tail(prints))

\* foreach_noise, lines 98-99: rewrite for the next node of the list
Rewrite ==
  /\ Running
  /\ nodei <= Len(nodelist)
  /\ LET r == rewrite(parsed, pc = "inbound", nodelist[nodei], add_attack,
                      Len(noise[pc]), bot_portcount)
     IN  /\ parsed' = r.list
         /\ files' = write_all(files, r.prints)
         /\ bot_portcount' = r.bot_portcount
         /\ error' = r.error
         /\ nodei' = IF r.error = "" THEN nodei + 1 ELSE nodei
  /\ UNCHANGED <<synthetic_interval, pc, noise, counter, add_attack, digest_in,
                 external_out,
                 bot_digests, bot_ports>>

\* the inbound file is exhausted: flush_all (line 101), then run, lines 82-85,
\* and foreach_noise line 89
RunOutbound ==
  /\ pc = "inbound"
  /\ error = ""
  /\ BetweenLines
  /\ pc' = "outbound"
  /\ bot_portcount' = outbound_portcount(bot_portcount)
  /\ counter' = 0
  /\ UNCHANGED <<synthetic_interval, noise, add_attack, parsed, nodei, files,
                 error, digest_in, external_out,
                 bot_digests, bot_ports>>

\* the outbound file is exhausted: flush_all, then close (line 86)
Close ==
  /\ pc = "outbound"
  /\ error = ""
  /\ BetweenLines
  /\ pc' = "closed"
  /\ UNCHANGED <<synthetic_interval, noise, counter, add_attack, parsed, nodei,
                 bot_portcount, files, error, digest_in, external_out,
                 bot_digests, bot_ports>>

Next ==
  \/ RunInbound
  \/ \E line \in InputLines : ReadLine(line)
  \/ Rewrite
  \/ RunOutbound
  \/ Close

Spec == Init /\ [][Next]_vars

(* ------------------------------- the external address of any digest *)
\* bytes a digest is drawn from: one reserved first octet and one usable byte
UsableSamples == {11, 254}

InitDigest ==
  /\ synthetic_interval = 0
  /\ pc = "init"
  /\ noise = [d \in Directions |-> <<>>]
  /\ counter = 0
  /\ add_attack = FALSE
  /\ parsed = NoList
  /\ nodei = Len(nodelist) + 1
  /\ bot_portcount = 0
  /\ files = EmptyFiles
  /\ error = ""
  /\ external_out = NoExternal
  /\ bot_digests = <<>>
  /\ bot_ports = <<>>
  /\ \E r \in RESERVED_CLASS_A, u \in UsableSamples :
       digest_in \in [1..DigestLen -> {r, u}]

\* rewrite, lines 137-142, on the digest: the address, or the IndexError
GenerateExternal ==
  /\ ~external_out.done
  /\ external_out' =
       IF external_overflow(digest_in)
       THEN [done |-> TRUE, error |-> "IndexError", octets |-> <<>>, ip |-> ""]
       ELSE [done |-> TRUE, error |-> "", octets |-> external_octets(digest_in),
             ip |-> external_ip(digest_in)]
  /\ UNCHANGED <<synthetic_interval, pc, noise, counter, add_attack, parsed,
                 nodei, bot_portcount, files, error, digest_in,
                 bot_digests, bot_ports>>

NextDigest == GenerateExternal

SpecDigest == InitDigest /\ [][NextDigest]_vars

(* ------------------------------------- longer noise files of records only *)
\* foreach_noise, lines 90-97, on a file whose every line is the same record
ReadRecord == ReadLineOf(LineData1, MaxRecordLines)

NextRecords ==
  \/ RunInbound
  \/ ReadRecord
  \/ Rewrite
  \/ RunOutbound
  \/ Close

SpecRecords == Init /\ [][NextRecords]_vars

(* ------------------------------------ the source ports of any bot digests *)
\* bot records of one trigger: every bot of every node that has bots
BotsPerTrigger == Len(BotNodes) * bots_per_node

\* the bots in the order gen_bots (node after node) and gen_victim go over them
BotIds == (1..Len(BotNodes)) \X (0..(bots_per_node - 1))

\* digests the bots are given: they differ in digest[10], the last byte summed
SampleDigests ==
  {[i \in 1..DigestLen |-> IF i = 11 THEN x ELSE IF i = 3 THEN 255 ELSE 7] :
     x \in {254, 255}}

\* values of self.bot_portcount from which a pass is followed: its start, and
\* the start of a later trigger of a long pass, from which counter + sum goes
\* past 55536
PortcountStarts == {0, 55232 - (55232 % BotsPerTrigger)}

InitPorts ==
  /\ synthetic_interval = 0
  /\ pc \in Directions
  /\ noise = [d \in Directions |-> <<>>]
  /\ counter = 0
  /\ add_attack = FALSE
  /\ parsed = NoList
  /\ nodei = Len(nodelist) + 1
  /\ bot_portcount \in PortcountStarts
  /\ files = EmptyFiles
  /\ error = ""
  /\ digest_in = <<>>
  /\ external_out = NoExternal
  /\ bot_digests \in [BotIds -> SampleDigests]
  /\ bot_ports = <<>>

\* one turn of the loop of gen_bots (lines 207-224) or of gen_victim's second
\* loop (lines 266-283): the next bot of the trigger gets its source port from
\* get_bot_src_port, which adds one to self.bot_portcount
EmitBot ==
  /\ Len(bot_ports) < MaxPortTriggers * BotsPerTrigger
  /\ LET j == ((bot_portcount % BotsPerTrigger) \div bots_per_node) + 1
         botid == bot_portcount % bots_per_node
         digest == bot_digests[<<j, botid>>]
     IN  bot_ports' =
           Append(bot_ports,
                  [trigger |-> (bot_portcount \div BotsPerTrigger) + 1,
                   node |-> BotNodes[j].name, id |-> botid, digest |-> digest,
                   portcount |-> bot_portcount,
                   port |-> get_bot_src_port(digest, bot_portcount)])
  /\ bot_portcount' = bot_portcount + 1
  /\ UNCHANGED <<synthetic_interval, pc, noise, counter, add_attack, parsed,
                 nodei, files, error, digest_in, external_out, bot_digests>>

NextPorts == EmitBot

SpecPorts == InitPorts /\ [][NextPorts]_vars

(* ================================================================ claims *)
NodeOf(name) == nodelist[NodeIndex(name)]

\* the positions of a file
Positions(n, d) == 1..Len(files[n][d])

\* the lines of every file of a direction that belong to input line i
PrintedFor(d, i) ==
  {p \in UNION {{files[n][d][k] : k \in Positions(n, d)} : n \in NodeNames} :
     p.line = i}

\* rewrite has printed input line i of direction d to node n's file
RealPrinted(n, d, i) ==
  \E k \in Positions(n, d) : files[n][d][k].gen = "rewrite" /\ files[n][d][k].line = i

\* the work on input line i of direction d is over, finished or aborted
LineOver(d, i) ==
  \/ i < Len(noise[d])
  \/ pc /= d
  \/ error /= ""
  \/ BetweenLines

\* the direction's pass is over, or stands between two lines
Settled(d) ==
  \/ pc = d /\ error = "" /\ BetweenLines
  \/ d = "inbound" /\ pc \in {"outbound", "closed"}
  \/ d = "outbound" /\ pc = "closed"

\* input line i of a pass is one on which the counter exceeds the interval:
\* the first is line interval+2, then every (interval+1)-th line
IsTriggerLine(i) ==
  i >= synthetic_interval + 2 /\ (i - 1) % (synthetic_interval + 1) = 0

\* how many trigger lines a pass has had up to its line i
TriggerOrdinal(i) == Cardinality({j \in 1..i : IsTriggerLine(j)})

IsHeaderLine(line) == line[FIELD_SRCIP + 1] = "sIP"

(* C1: every node anonymizes the record as parsed from the input line: the
   internal address it prints is prefix.d0.d1 of the digest of the ORIGINAL
   internal address, and the external address is made of the digest of the
   ORIGINAL external address followed by the node's name. *)
C1_EachNodeHashesOriginal ==
  \A n \in NodeNames, d \in Directions : \A k \in Positions(n, d) :
    LET p == files[n][d][k]
        orig == noise[d][p.line]
        int == internalfield(d = "inbound") + 1
        ext == externalfield(d = "inbound") + 1
    IN  p.kind = "real" =>
          /\ p.fields[int] = internal_ip(NodeOf(n).own_network, md5it(orig[int]))
          /\ p.fields[ext] = external_ip(md5it(orig[ext] \o n))

(* C2: a header line is printed with its fields unchanged to the file of the
   direction of every node, and no synthetic record is generated for it, at
   whatever position of the input it is read. *)
C2_HeaderPassesThrough ==
  \A d \in Directions : \A i \in 1..Len(noise[d]) :
    IsHeaderLine(noise[d][i]) =>
      /\ \A p \in PrintedFor(d, i) : p.gen = "rewrite"
      /\ LineOver(d, i) =>
           \A n \in NodeNames : \E k \in Positions(n, d) :
             /\ files[n][d][k].line = i
             /\ files[n][d][k].fields = SubSeq(noise[d][i], 1, FIELD_SENSOR + 1)

(* C3: in every file, the lines rewrite prints are one per input line, in
   input order, every line read being printed once the pass stands between
   two lines; and every synthetic line follows, with nothing of another input
   line in between, the real line of the input line that triggered it. *)
C3_OrderWithinFile ==
  \A n \in NodeNames, d \in Directions :
    LET f == files[n][d]
        reals == {k \in 1..Len(f) : f[k].gen = "rewrite"}
    IN  /\ \A k \in 1..Len(f) :
             IF f[k].gen = "rewrite"
             THEN f[k].line = 1 + Cardinality({j \in reals : j < k})
             ELSE k > 1 /\ f[k - 1].line = f[k].line
        /\ Cardinality(reals) <= Len(noise[d])
        /\ Settled(d) => Cardinality(reals) = Len(noise[d])

\* the victim's inbound file holds a real line, the aggregation and the probe
\* of a trigger, and the real line of the next input line after them
C3_Witness ==
  LET f == files[victim_node.name]["inbound"]
  IN  \E k \in 1..Len(f) :
        /\ k > 2
        /\ f[k].gen = "rewrite"
        /\ f[k - 1].gen = "gen_probes"
        /\ \E j \in 1..(k - 1) : f[j].gen = "gen_victim"

\* the source ports of the bot records of (node, id), in the order printed
BotPorts(f, gen, name, id) ==
  LET Mine(p) == p.gen = gen /\ p.kind = "bot" /\ p.node = name /\ p.id = id
      mine == SelectSeq(f, Mine)
  IN  [t \in 1..Len(mine) |-> mine[t].fields[FIELD_SRCPORT + 1]]

(* C4: for every node with bots and every bot, the source port of its flood
   record at the t-th trigger of the outbound pass, in the node's outbound
   file, is the source port of the record the victim's inbound file holds for
   that bot at the t-th trigger of the inbound pass. *)
C4_BotPortsAgree ==
  \A j \in 1..Len(BotNodes), b \in 0..(bots_per_node - 1) :
    LET own == BotPorts(files[BotNodes[j].name]["outbound"], "gen_bots",
                        BotNodes[j].name, b)
        seen == BotPorts(files[victim_node.name]["inbound"], "gen_victim",
                         BotNodes[j].name, b)
    IN  \A t \in 1..Len(own) : t <= Len(seen) => own[t] = seen[t]

\* both passes have had two triggers
C4_Witness ==
  /\ Len(BotPorts(files[BotNodes[2].name]["outbound"], "gen_bots",
                  BotNodes[2].name, 1)) >= 2
  /\ Len(BotPorts(files[victim_node.name]["inbound"], "gen_victim",
                  BotNodes[2].name, 1)) >= 2

\* the lines gen_victim printed for input line i to a file
Aggregated(f, i) == {k \in 1..Len(f) : f[k].gen = "gen_victim" /\ f[k].line = i}

\* the attackers gen_victim aggregates: (kind, node, id)
Attackers ==
  {<<"amp", AmpNodes[j].name, a>> :
     j \in 1..Len(AmpNodes), a \in 0..(amplifiers_per_node - 1)}
  \cup {<<"bot", BotNodes[j].name, b>> :
          j \in 1..Len(BotNodes), b \in 0..(bots_per_node - 1)}

(* C5: at each trigger of the inbound pass for which the victim node is
   processed, the victim's inbound file receives exactly one UDP record for
   every amplifier of every node with amplifiers and one for every bot of
   every node with bots, with destination the victim address and with the
   source address the contributing node prints as source in its own outbound
   file; no other line is aggregated, and none in any other file. *)
C5_VictimAggregation ==
  LET v == victim_node.name
      f == files[v]["inbound"]
  IN  /\ \A n \in NodeNames, d \in Directions : \A k \in Positions(n, d) :
           files[n][d][k].gen = "gen_victim" => n = v /\ d = "inbound"
      /\ \A k \in 1..Len(f) :
           f[k].gen = "gen_victim" => f[k].line \in 1..Len(noise["inbound"])
      /\ \A i \in 1..Len(noise["inbound"]) :
           IF IsTriggerLine(i) /\ RealPrinted(v, "inbound", i)
           THEN LET here == Aggregated(f, i)
                IN  /\ Cardinality(here) = Cardinality(Attackers)
                    /\ \A a \in Attackers :
                         \E k \in here :
                           /\ <<f[k].kind, f[k].node, f[k].id>> = a
                           /\ f[k].fields[FIELD_PROTO + 1] = "17"
                           /\ f[k].fields[FIELD_DSTIP + 1] = victim_node.victim_ip
                           /\ \A q \in Positions(a[2], "outbound") :
                                LET o == files[a[2]]["outbound"][q]
                                IN  (o.kind = a[1] /\ o.id = a[3]) =>
                                      o.fields[FIELD_SRCIP + 1]
                                        = f[k].fields[FIELD_SRCIP + 1]
           ELSE Aggregated(f, i) = {}

\* the victim's inbound file holds an aggregation, and a contributing node has
\* printed amplifier and bot records to its own outbound file
C5_Witness ==
  /\ \E k \in Positions(victim_node.name, "inbound") :
       files[victim_node.name]["inbound"][k].gen = "gen_victim"
  /\ \E k \in Positions(BotNodes[1].name, "outbound") :
       files[BotNodes[1].name]["outbound"][k].gen = "gen_bots"
  /\ \E k \in Positions(AmpNodes[2].name, "outbound") :
       files[AmpNodes[2].name]["outbound"][k].gen = "gen_amplifiers"

(* C6: the first record of a pass triggers synthesis when the interval is 0,
   and does not when the interval is greater than 0. *)
C6_FirstRecordTriggersAtZero ==
  \A d \in Directions :
    (pc = d /\ Len(noise[d]) = 1) => (add_attack <=> synthetic_interval = 0)

\* a line with a wrong field count or a start time that does not parse
Malformed(line) ==
  \/ Len(line) /= FIELD_TIMEDATE + 1
  \/ ~IsHeaderLine(line) /\ ~Parsable(line[FIELD_STIME + 1])

(* C7: a malformed input line raises an error that ends the run at that
   line: it is the last line read, and nothing is printed for it. *)
C7_MalformedLineAborts ==
  \A d \in Directions : \A i \in 1..Len(noise[d]) :
    Malformed(noise[d][i]) =>
      /\ error /= ""
      /\ i = Len(noise[d])
      /\ PrintedFor(d, i) = {}

\* the positions of digest_in that hold a usable first octet
UsablePositions ==
  {p \in 0..(DigestLen - 1) : digest_in[p + 1] \notin RESERVED_CLASS_A}

Least(S) == CHOOSE x \in S : \A y \in S : x <= y

\* no usable byte with three bytes after it is found walking from the start
Exhausted == UsablePositions = {} \/ Least(UsablePositions) + 3 > DigestLen - 1

(* C8: whatever the digest, the external address made of it never has a
   first octet in the reserved set; when the digest is exhausted before four
   bytes are found, the run fails and no address is made. *)
C8_ReservedAvoided ==
  external_out.done =>
    IF Exhausted
    THEN external_out.error = "IndexError" /\ external_out.ip = ""
    ELSE /\ external_out.error = ""
         /\ external_out.octets[1] \notin RESERVED_CLASS_A
         /\ external_out.octets =
              SubSeq(digest_in, Least(UsablePositions) + 1,
                     Least(UsablePositions) + 4)

\* an address was made of a digest whose first two bytes are reserved
C8_Witness ==
  /\ external_out.done
  /\ external_out.error = ""
  /\ digest_in[1] \in RESERVED_CLASS_A
  /\ digest_in[2] \in RESERVED_CLASS_A

\* '%.3f' seconds read back, in microseconds
duration_table ==
  ("0.010" :> 10000) @@ ("0.500" :> 500000) @@ ("5.000" :> 5000000)
    @@ ("55.000" :> 55000000)

\* the offset a synthetic record of a kind and index adds to the base start
OffsetOf(kind, id) ==
  IF kind = "probe" THEN timedelta_ms(15 * (1 + id)) ELSE timedelta_ms(10 * (1 + id))

(* C9: every record printed has end = start + duration, the input records
   having it; a real record keeps the start, duration and end of its input
   line, and a synthetic record starts at the start of its base record plus the
   offset of its index and ends that start plus the duration it declares. *)
C9_EndIsStartPlusDuration ==
  \A n \in NodeNames, d \in Directions : \A k \in Positions(n, d) :
    LET p == files[n][d][k]
        orig == noise[p.file[2]][p.line]
    IN  p.kind /= "header" =>
          /\ strptime(p.fields[FIELD_ETIME + 1])
               = strptime(p.fields[FIELD_STIME + 1])
                   + duration_table[p.fields[FIELD_DURATION + 1]]
          /\ IF p.kind = "real"
             THEN SubSeq(p.fields, FIELD_STIME + 1, FIELD_ETIME + 1)
                    = SubSeq(orig, FIELD_STIME + 1, FIELD_ETIME + 1)
             ELSE strptime(p.fields[FIELD_STIME + 1])
                    = strptime(orig[FIELD_STIME + 1]) + OffsetOf(p.kind, p.id)

\* a file holds a probe record and the second amplifier's record of a trigger
C9_Witness ==
  \E n \in NodeNames : \E k, j \in Positions(n, "inbound") :
    /\ files[n]["inbound"][k].kind = "probe"
    /\ files[n]["inbound"][j].kind = "amp"
    /\ files[n]["inbound"][j].id = 1

\* digest bytes 2..10 added up
DigestSum(digest) ==
  LET RECURSIVE Sum(_)
      Sum(i) == IF i > 10 THEN 0 ELSE digest[i + 1] + Sum(i + 1)
  IN  Sum(2)

\* the port 10000 + ((counter + sum) mod 55536) of the flood record of bot b
\* of the j-th node with bots at the t-th trigger of a pass, the counter
\* starting at 0 and growing by one per bot record
ExpectedBotPort(t, j, b) ==
  10000 + ((((t - 1) * Len(BotNodes) * bots_per_node + (j - 1) * bots_per_node + b)
            + DigestSum(bot_digest(BotNodes[j], b))) % 55536)

(* C10: for a node with bots, every trigger of the outbound pass puts exactly
   bots_per_node flood records (protocol 17) in its outbound file, to the
   victim address and the bot port, the source port of each being
   10000 + ((counter + sum of digest bytes 2..10) mod 55536) with the counter
   at 0 when the pass starts and one more per bot record, hence in
   10000..65535; its files get no flood record in the inbound pass. *)
C10_BotFloods ==
  \A j \in 1..Len(BotNodes) :
    LET v == BotNodes[j].name
        f == files[v]["outbound"]
        Floods(i) == {k \in 1..Len(f) : f[k].kind = "bot" /\ f[k].line = i}
    IN  /\ \A d \in Directions : \A k \in Positions(v, d) :
             files[v][d][k].kind = "bot" =>
               /\ d = "outbound"
               /\ pc \in {"outbound", "closed"}
               /\ files[v][d][k].line \in 1..Len(noise["outbound"])
        /\ pc = "inbound" => f = <<>>
        /\ \A i \in 1..Len(noise["outbound"]) :
             IF IsTriggerLine(i) /\ RealPrinted(v, "outbound", i)
                  /\ ~IsHeaderLine(noise["outbound"][i])
             THEN LET here == Floods(i)
                      t == TriggerOrdinal(i)
                  IN  /\ Cardinality(here) = bots_per_node
                      /\ \A b \in 0..(bots_per_node - 1) : \E k \in here :
                           /\ f[k].id = b
                           /\ f[k].fields[FIELD_PROTO + 1] = "17"
                           /\ f[k].fields[FIELD_DSTIP + 1] = victim_node.victim_ip
                           /\ f[k].fields[FIELD_DSTPORT + 1] = ToString(bot_dst_port)
                           /\ f[k].fields[FIELD_SRCPORT + 1]
                                = ToString(ExpectedBotPort(t, j, b))
                           /\ ExpectedBotPort(t, j, b) \in 10000..65535
             ELSE Floods(i) = {}

\* the second node with bots has printed the floods of two triggers
C10_Witness ==
  LET f == files[BotNodes[2].name]["outbound"]
  IN  Cardinality({k \in 1..Len(f) : f[k].kind = "bot"}) >= 2 * bots_per_node

\* the address of amplifier a of a network, written out from the digest bytes
AmplifierAddress(prefix, a) ==
  LET digest == md5_table[prefix \o ToString(a)]
  IN  prefix \o "." \o ToString(digest[1]) \o "." \o ToString(digest[2])

(* C11: for a node with amplifiers, every trigger of either pass puts exactly
   amplifiers_per_node amplifier records (protocol 17) in the node's file of
   that pass, one per index a in 0..amplifiers_per_node-1, the amplifier
   address being prefix.d0.d1 of the digest of prefix followed by a, the same
   in both passes. Inbound: source = victim address, destination = amplifier,
   source port = client port, destination port = service port; outbound:
   addresses and ports exchanged. A line that is no trigger adds none. *)
C11_AmplifierRecords ==
  \A j \in 1..Len(AmpNodes) : \A d \in Directions :
    LET node == AmpNodes[j]
        f == files[node.name][d]
        Amps(i) == {k \in 1..Len(f) : f[k].kind = "amp" /\ f[k].line = i}
    IN  \A i \in 1..Len(noise[d]) :
          IF IsTriggerLine(i) /\ RealPrinted(node.name, d, i)
               /\ ~IsHeaderLine(noise[d][i])
          THEN LET here == Amps(i)
               IN  /\ Cardinality(here) = amplifiers_per_node
                   /\ \A a \in 0..(amplifiers_per_node - 1) : \E k \in here :
                        LET r == f[k].fields
                            amp == AmplifierAddress(node.own_network, a)
                        IN  /\ f[k].id = a
                            /\ f[k].gen = "gen_amplifiers"
                            /\ r[FIELD_PROTO + 1] = "17"
                            /\ IF d = "inbound"
                               THEN /\ r[FIELD_SRCIP + 1] = victim_node.victim_ip
                                    /\ r[FIELD_DSTIP + 1] = amp
                                    /\ r[FIELD_SRCPORT + 1] = ToString(reflect_client_port)
                                    /\ r[FIELD_DSTPORT + 1] = ToString(reflect_service_port)
                               ELSE /\ r[FIELD_SRCIP + 1] = amp
                                    /\ r[FIELD_DSTIP + 1] = victim_node.victim_ip
                                    /\ r[FIELD_SRCPORT + 1] = ToString(reflect_service_port)
                                    /\ r[FIELD_DSTPORT + 1] = ToString(reflect_client_port)
          ELSE Amps(i) = {}

\* the second node with amplifiers holds the records of its last amplifier in
\* its inbound file and in its outbound file
C11_Witness ==
  \A d \in Directions :
    LET f == files[AmpNodes[2].name][d]
    IN  \E k \in 1..Len(f) :
          f[k].kind = "amp" /\ f[k].id = amplifiers_per_node - 1

(* C12: within one pass two distinct bot records carry the same source port
   exactly when counter + digest sum of the one and of the other agree modulo
   55536; the records of one bot at two different triggers (fewer than 55536
   bot records apart) carry different ports, while two different bots can
   carry the same port. *)
C12_PortsDifferUnlessCongruent ==
  \A y \in 1..Len(bot_ports) : \A x \in 1..(y - 1) :
    LET e == bot_ports[x]
        g == bot_ports[y]
    IN  /\ e.port = g.port <=>
              (e.portcount + DigestSum(e.digest)) % 55536
                = (g.portcount + DigestSum(g.digest)) % 55536
        /\ (e.node = g.node /\ e.id = g.id) =>
              e.trigger /= g.trigger /\ e.port /= g.port

\* every trigger followed has happened, a bot has got two different ports at
\* two triggers, and two different bots have got the same port
C12_Witness ==
  /\ Len(bot_ports) = MaxPortTriggers * BotsPerTrigger
  /\ \E x \in 1..Len(bot_ports), y \in 1..Len(bot_ports) :
       /\ bot_ports[x].node = bot_ports[y].node
       /\ bot_ports[x].id = bot_ports[y].id
       /\ bot_ports[x].trigger /= bot_ports[y].trigger
       /\ bot_ports[x].port /= bot_ports[y].port
  /\ \E x \in 1..Len(bot_ports), y \in 1..Len(bot_ports) :
       /\ <<bot_ports[x].node, bot_ports[x].id>> /= <<bot_ports[y].node, bot_ports[y].id>>
       /\ bot_ports[x].port = bot_ports[y].port

\* C12 as stated: any two distinct bot records of a pass carry different
\* source ports, whatever the bots' digests
C12_AllPortsDistinct ==
  \A x \in 1..Len(bot_ports), y \in 1..Len(bot_ports) :
    x /= y => bot_ports[x].port /= bot_ports[y].port

\* some generator has printed a line for input line i to node n's file
Synthetic(n, d, i) ==
  \E k \in Positions(n, d) :
    files[n][d][k].gen /= "rewrite" /\ files[n][d][k].line = i

\* node has a generator that prints in direction d: amplifiers in both,
\* bots outbound, the victim's aggregation and the probes inbound
Synthesizes(node, d) ==
  \/ node.has_amplifiers
  \/ node.has_bots /\ d = "outbound"
  \/ node = victim_node /\ d = "inbound"
  \/ probes_enabled = 1 /\ d = "inbound"

\* the input lines of direction d for which some file holds synthetic lines
TriggerLines(d) ==
  {i \in 1..Len(noise[d]) : \E n \in NodeNames : Synthetic(n, d, i)}

(* C13: the trigger counter is 0 when a pass starts, whatever the pass before
   left; the line read is a trigger exactly when the counter then exceeds the
   interval, so the first trigger is line interval+2 and the counter is 1
   after a trigger; the decision of a line holds for every node: each node
   that has printed the line has printed synthetic lines for it exactly when
   the line is a trigger and the node has a generator for the direction; and
   after a trigger the next interval lines are no triggers and the
   (interval+1)-th following line is one. The lines looked at are the record
   lines the first node has printed. *)
C13_PeriodicTriggers ==
  \A d \in Directions :
    LET n == Len(noise[d])
        Record(d2, i) == /\ RealPrinted(nodelist[1].name, d2, i)
                         /\ ~IsHeaderLine(noise[d2][i])
    IN  /\ (pc = d /\ n = 0) => counter = 0
        /\ (pc = d /\ n >= 1) =>
             /\ add_attack = IsTriggerLine(n)
             /\ counter = IF n <= synthetic_interval + 1
                          THEN n
                          ELSE ((n - 1) % (synthetic_interval + 1)) + 1
        /\ \A i \in 1..n : \A v \in NodeNames :
             (RealPrinted(v, d, i) /\ ~IsHeaderLine(noise[d][i])) =>
               (Synthetic(v, d, i) <=>
                  (i \in TriggerLines(d) /\ Synthesizes(NodeOf(v), d)))
        /\ \A t \in TriggerLines(d) :
             /\ t >= synthetic_interval + 2
             /\ \A u \in (t + 1)..(t + synthetic_interval) : u \notin TriggerLines(d)
             /\ Record(d, t + synthetic_interval + 1) =>
                  t + synthetic_interval + 1 \in TriggerLines(d)
        /\ Record(d, synthetic_interval + 2) =>
             synthetic_interval + 2 \in TriggerLines(d)

\* with a positive interval both passes have had two triggers, and the
\* outbound pass is over
C13_Witness ==
  /\ synthetic_interval >= 1
  /\ pc = "closed"
  /\ \A d \in Directions : Cardinality(TriggerLines(d)) >= 2

====
